---- MODULE Spec2Model ----
(***************************************************************************)
(* The goki smart-wallet program (programs/smart-wallet): a multisig       *)
(* wallet with a timelock.  The state is the set of SmartWallet accounts   *)
(* and Transaction accounts the program owns, plus the cluster clock.      *)
(* Every instruction handler is one action; an instruction that returns an *)
(* error (or panics) is rolled back by the runtime, so it changes no       *)
(* account and only its result is recorded in `last`.                      *)
(***************************************************************************)
EXTENDS Integers, Sequences, FiniteSets, TLC

(***************************************************************************)
(* Program constants (lib.rs).                                             *)
(***************************************************************************)
SECONDS_PER_DAY == 86400

MAX_DELAY_SECONDS == 365 * SECONDS_PER_DAY

DEFAULT_GRACE_PERIOD == 14 * SECONDS_PER_DAY

NO_ETA == -1

\* executed_at of a Transaction that was never executed (lib.rs:142, state.rs:68).
NOT_EXECUTED == -1

(***************************************************************************)
(* Bounds of the model.                                                    *)
(***************************************************************************)
\* SmartWallet accounts and Transaction accounts that may be created.
WalletIds == {1}

TxIds == {1}

\* Longest instruction buffer of a Transaction.
MaxIx == 2

\* Cap on SmartWallet::num_transactions (a u64 in the program).
MaxNumTx == 2

\* Cap on SmartWallet::owner_set_seqno (a u32 in the program).
MaxSeqno == 1

(***************************************************************************)
(* Input universes.                                                        *)
(***************************************************************************)
\* Pubkey::default(): the all-zero key, which nobody can sign with.
DefaultPubkey == "default"

\* The keys that sign instructions.
Signers == {"A", "B", "C"}

\* TXInstruction values stored in a Transaction.
TXInstruction == {"blank", "ix"}

\* Instants the clock takes, in seconds (Clock::get()?.unix_timestamp).
Times == <<1800, 1800 + DEFAULT_GRACE_PERIOD, 1801 + DEFAULT_GRACE_PERIOD>>

\* Arguments tried for create_smart_wallet.
CreateSmartWalletArgs ==
    { [max_owners |-> 3, owners |-> <<"A", "B", "C">>, threshold |-> 2, minimum_delay |-> 0],
      [max_owners |-> 2, owners |-> <<"A", "B">>, threshold |-> 1, minimum_delay |-> 1800],
      [max_owners |-> 3, owners |-> <<"A", "B">>, threshold |-> 3, minimum_delay |-> 0],
      [max_owners |-> 1, owners |-> <<"A", "B">>, threshold |-> 1, minimum_delay |-> 0],
      [max_owners |-> 2, owners |-> <<"A", "B">>, threshold |-> 1, minimum_delay |-> -1],
      [max_owners |-> 2, owners |-> <<"A", "B">>, threshold |-> 1,
       minimum_delay |-> MAX_DELAY_SECONDS] }

\* Arguments tried for create_smart_wallet where the configuration then mutates.
CfgWalletArgs ==
    { [max_owners |-> 2, owners |-> <<"A", "B">>, threshold |-> 2, minimum_delay |-> 0],
      [max_owners |-> 1, owners |-> <<"A", "B">>, threshold |-> 1, minimum_delay |-> 0] }

\* ETAs tried for create_transaction_with_timelock: none, a negative one, the
\* first instant, the first instant plus the minimum_delay of 1800, the second
\* instant, and the last instant plus MAX_DELAY_SECONDS.
EtaArgs ==
    {NO_ETA, -2, 1800, 3600, 1800 + DEFAULT_GRACE_PERIOD,
     1801 + DEFAULT_GRACE_PERIOD + MAX_DELAY_SECONDS}

\* Instruction lists tried for create_transaction_with_timelock.
InstructionArgs == {<<>>, <<"ix", "ix">>}

\* blank_xacts and buffer_size tried for create_transaction.
BlankArgs == {<<>>, <<"blank">>}

BufferSizeArgs == {0, MaxIx}

\* The instruction and the slots tried for append_transaction.
AppendArgs == {"ix"}

AppendIndexArgs == {0, MaxIx}

\* Owner lists and thresholds tried for the configuration mutations.
SetOwnersArgs == {<<"A", "C">>}

ThresholdArgs == {1}

\* The bump seed of every Transaction PDA, and a wrong one.
TxBump == 255

WrongBump == 254

(***************************************************************************)
(* State.                                                                  *)
(***************************************************************************)
VARIABLES
    wallets,    \* sequence of SmartWallet accounts; an account's key is its position
    txs,        \* sequence of Transaction accounts; an account's key is its position
    created,    \* history: created[t] is the clock when Transaction t was created
    now,        \* index into Times of the current clock
    last        \* the last instruction processed and its result

vars == <<wallets, txs, created, now, last>>

Clock == Times[now]

\* The result of an instruction: the handler, the SmartWallet and Transaction
\* accounts it was given, its signer, what it returned, and how many of the
\* Transaction's instructions it invoked.
Result(op, w, t, who, err, n) ==
    [op |-> op, w |-> w, t |-> t, who |-> who, err |-> err, dispatched |-> n]

\* No instruction was processed since the clock last moved.
NoResult == Result("none", 0, 0, DefaultPubkey, "Ok", 0)

Init ==
    /\ wallets = <<>>
    /\ txs = <<>>
    /\ created = <<>>
    /\ now = 1
    /\ last = NoResult

\* The runtime rolls back an instruction that fails: only the result is seen.
Fail(r) ==
    /\ last' = r
    /\ UNCHANGED <<wallets, txs, created, now>>

\* Mutant: a minimum_delay of exactly MAX_DELAY_SECONDS is let through.
CreateSmartWalletErr_DelayInclusive(a) ==
    IF ~(a.minimum_delay >= 0) THEN "InvariantFailed"
    ELSE IF ~(a.minimum_delay <= MAX_DELAY_SECONDS) THEN "DelayTooHigh"
    ELSE IF ~(a.max_owners >= Len(a.owners)) THEN "InvariantFailed"
    ELSE "Ok"

\* Mutant: the owners are not compared with max_owners.
CreateSmartWalletErr_NoCapacity(a) ==
    IF ~(a.minimum_delay >= 0) THEN "InvariantFailed"
    ELSE IF ~(a.minimum_delay < MAX_DELAY_SECONDS) THEN "DelayTooHigh"
    ELSE "Ok"

(***************************************************************************)
(* create_smart_wallet (lib.rs:63-101), with its validator                 *)
(* (validators.rs:6-10), which accepts everything.                         *)
(***************************************************************************)
CreateSmartWalletValidate(a) == "Ok"

CreateSmartWalletErr(a) ==
    IF CreateSmartWalletValidate(a) # "Ok" THEN CreateSmartWalletValidate(a)
    ELSE IF ~(a.minimum_delay >= 0) THEN "InvariantFailed"
    ELSE IF ~(a.minimum_delay < MAX_DELAY_SECONDS) THEN "DelayTooHigh"
    ELSE IF ~(a.max_owners >= Len(a.owners)) THEN "InvariantFailed"
    ELSE "Ok"

NewSmartWallet(a) ==
    [ threshold |-> a.threshold,
      minimum_delay |-> a.minimum_delay,
      grace_period |-> DEFAULT_GRACE_PERIOD,
      owner_set_seqno |-> 0,
      num_transactions |-> 0,
      owners |-> a.owners,
      max_owners |-> a.max_owners ]

CreateSmartWallet(a) ==
    /\ LET w == Len(wallets) + 1
           e == CreateSmartWalletErr(a)
       IN IF e # "Ok"
          THEN Fail(Result("create_smart_wallet", w, 0, DefaultPubkey, e, 0))
          ELSE /\ wallets' = Append(wallets, NewSmartWallet(a))
               /\ last' = Result("create_smart_wallet", w, 0, DefaultPubkey, "Ok", 0)
               /\ UNCHANGED <<txs, created, now>>

(***************************************************************************)
(* SmartWallet::owner_index: the position of `key` in `owners` (0-based),  *)
(* or InvalidOwner (here -1) when it is absent.  With a duplicated owner   *)
(* the first position is returned.                                         *)
(***************************************************************************)
owner_index(sw, key) ==
    IF \E i \in 1..Len(sw.owners) : sw.owners[i] = key
    THEN (CHOOSE i \in 1..Len(sw.owners) :
              /\ sw.owners[i] = key
              /\ \A j \in 1..(i - 1) : sw.owners[j] # key) - 1
    ELSE -1

\* Mutant: the proposer's own flag is not set.
NewSigners_NoSelfApproval(sw, idx) == [i \in 1..Len(sw.owners) |-> FALSE]

\* Mutant: the flags are sized by the wallet's capacity, not by its owners.
NewSigners_MaxOwners(sw, idx) == [i \in 1..sw.max_owners |-> i = idx + 1]

\* signers.resize(owners.len(), false); signers[owner_index] = true
NewSigners(sw, idx) == [i \in 1..Len(sw.owners) |-> i = idx + 1]

\* buffer.resize(buffer_size, blank_xacts[0].clone())
Buffer(buffer_size, blank) == [i \in 1..buffer_size |-> blank]

\* Mutant: create_transaction without the owner_index lookup of the proposer.
CreateTransactionErr_NoOwnerCheck(sw, proposer, buffer_size, blank_xacts) ==
    IF Len(blank_xacts) = 0 THEN "Panic"
    ELSE "Ok"

(***************************************************************************)
(* create_transaction (lib.rs:103-146).                                    *)
(***************************************************************************)
CreateTransactionErr(sw, proposer, buffer_size, blank_xacts) ==
    IF Len(blank_xacts) = 0 THEN "Panic"
    ELSE IF owner_index(sw, proposer) < 0 THEN "InvalidOwner"
    ELSE "Ok"

\* Mutant: the increment of num_transactions, which the handler makes before
\* it looks the proposer up, is kept when the lookup fails.
CreateTransaction_KeepsIncrement(w, proposer, buffer_size, blank_xacts) ==
    /\ w \in 1..Len(wallets)
    /\ wallets[w].num_transactions < MaxNumTx
    /\ LET sw == wallets[w]
           t == Len(txs) + 1
           e == CreateTransactionErr(sw, proposer, buffer_size, blank_xacts)
           num == sw.num_transactions + 1
       IN IF e = "Panic"
          THEN Fail(Result("create_transaction", w, t, proposer, e, 0))
          ELSE IF e # "Ok"
          THEN /\ wallets' = [wallets EXCEPT ![w].num_transactions = num]
               /\ last' = Result("create_transaction", w, t, proposer, e, 0)
               /\ UNCHANGED <<txs, created, now>>
          ELSE /\ wallets' = [wallets EXCEPT ![w].num_transactions = num]
               /\ txs' = Append(txs,
                      [ smart_wallet |-> w,
                        index |-> num,
                        bump |-> TxBump,
                        proposer |-> proposer,
                        instructions |-> Buffer(buffer_size, blank_xacts[1]),
                        signers |-> NewSigners(sw, owner_index(sw, proposer)),
                        owner_set_seqno |-> sw.owner_set_seqno,
                        eta |-> NO_ETA,
                        executor |-> DefaultPubkey,
                        executed_at |-> NOT_EXECUTED ])
               /\ created' = Append(created, Clock)
               /\ last' = Result("create_transaction", w, t, proposer, "Ok", 0)
               /\ UNCHANGED now

\* Mutant: owner_set_seqno of the new Transaction is left at its default.
CreateTransaction_SeqnoUnset(w, proposer, buffer_size, blank_xacts) ==
    /\ w \in 1..Len(wallets)
    /\ wallets[w].num_transactions < MaxNumTx
    /\ LET sw == wallets[w]
           t == Len(txs) + 1
           e == CreateTransactionErr(sw, proposer, buffer_size, blank_xacts)
           num == sw.num_transactions + 1
       IN IF e # "Ok"
          THEN Fail(Result("create_transaction", w, t, proposer, e, 0))
          ELSE /\ wallets' = [wallets EXCEPT ![w].num_transactions = num]
               /\ txs' = Append(txs,
                      [ smart_wallet |-> w,
                        index |-> num,
                        bump |-> TxBump,
                        proposer |-> proposer,
                        instructions |-> Buffer(buffer_size, blank_xacts[1]),
                        signers |-> NewSigners(sw, owner_index(sw, proposer)),
                        owner_set_seqno |-> 0,
                        eta |-> NO_ETA,
                        executor |-> DefaultPubkey,
                        executed_at |-> NOT_EXECUTED ])
               /\ created' = Append(created, Clock)
               /\ last' = Result("create_transaction", w, t, proposer, "Ok", 0)
               /\ UNCHANGED now

CreateTransaction(w, proposer, buffer_size, blank_xacts) ==
    /\ w \in 1..Len(wallets)
    /\ wallets[w].num_transactions < MaxNumTx
    /\ LET sw == wallets[w]
           t == Len(txs) + 1
           e == CreateTransactionErr(sw, proposer, buffer_size, blank_xacts)
           num == sw.num_transactions + 1
       IN IF e # "Ok"
          THEN Fail(Result("create_transaction", w, t, proposer, e, 0))
          ELSE /\ wallets' = [wallets EXCEPT ![w].num_transactions = num]
               /\ txs' = Append(txs,
                      [ smart_wallet |-> w,
                        index |-> num,
                        bump |-> TxBump,
                        proposer |-> proposer,
                        instructions |-> Buffer(buffer_size, blank_xacts[1]),
                        signers |-> NewSigners(sw, owner_index(sw, proposer)),
                        owner_set_seqno |-> sw.owner_set_seqno,
                        eta |-> NO_ETA,
                        executor |-> DefaultPubkey,
                        executed_at |-> NOT_EXECUTED ])
               /\ created' = Append(created, Clock)
               /\ last' = Result("create_transaction", w, t, proposer, "Ok", 0)
               /\ UNCHANGED now

(***************************************************************************)
(* append_transaction (lib.rs:148-171): overwrites one slot of the         *)
(* instruction buffer.  `who` is the `owner` signer of AppendTransaction   *)
(* (lib.rs:513-525), which the handler never looks at.                     *)
(***************************************************************************)
AppendTransactionErr(tx, bump, index) ==
    IF ~(tx.bump = bump) THEN "InvalidBump"
    ELSE IF ~(index < Len(tx.instructions)) THEN "Panic"
    ELSE "Ok"

AppendTransaction(w, t, who, bump, instructions, index) ==
    /\ w \in 1..Len(wallets)
    /\ t \in 1..Len(txs)
    /\ wallets[w].num_transactions < MaxNumTx
    /\ LET e == AppendTransactionErr(txs[t], bump, index)
       IN IF e # "Ok"
          THEN Fail(Result("append_transaction", w, t, who, e, 0))
          ELSE /\ txs' = [txs EXCEPT ![t].instructions[index + 1] = instructions]
               /\ wallets' = [wallets EXCEPT ![w].num_transactions = @ + 1]
               /\ last' = Result("append_transaction", w, t, who, "Ok", 0)
               /\ UNCHANGED <<created, now>>

\* Mutant: the ETA must be strictly later than now + minimum_delay.
CreateTransactionWithTimelockErr_Strict(sw, proposer, eta, current_ts) ==
    IF owner_index(sw, proposer) < 0 THEN "InvalidOwner"
    ELSE IF sw.minimum_delay # 0 /\ ~(eta > current_ts + sw.minimum_delay) THEN "InvalidETA"
    ELSE IF eta # NO_ETA /\ ~(eta >= 0) THEN "InvariantFailed"
    ELSE IF eta # NO_ETA /\ ~(eta - current_ts >= 0) THEN "InvariantFailed"
    ELSE IF eta # NO_ETA /\ ~(eta - current_ts <= MAX_DELAY_SECONDS) THEN "DelayTooHigh"
    ELSE "Ok"

(***************************************************************************)
(* create_transaction_with_timelock (lib.rs:353-413).  Its access control  *)
(* is Validate for CreateTransaction, which adds no check to the ones of   *)
(* the handler.                                                            *)
(***************************************************************************)
CreateTransactionValidate(sw, proposer) == "Ok"

CreateTransactionWithTimelockErr(sw, proposer, eta, current_ts) ==
    IF CreateTransactionValidate(sw, proposer) # "Ok"
    THEN CreateTransactionValidate(sw, proposer)
    ELSE IF owner_index(sw, proposer) < 0 THEN "InvalidOwner"
    ELSE IF sw.minimum_delay # 0 /\ ~(eta >= current_ts + sw.minimum_delay) THEN "InvalidETA"
    ELSE IF eta # NO_ETA /\ ~(eta >= 0) THEN "InvariantFailed"
    ELSE IF eta # NO_ETA /\ ~(eta - current_ts >= 0) THEN "InvariantFailed"
    ELSE IF eta # NO_ETA /\ ~(eta - current_ts <= MAX_DELAY_SECONDS) THEN "DelayTooHigh"
    ELSE "Ok"

CreateTransactionWithTimelock(w, proposer, instructions, eta) ==
    /\ w \in 1..Len(wallets)
    /\ wallets[w].num_transactions < MaxNumTx
    /\ LET sw == wallets[w]
           t == Len(txs) + 1
           e == CreateTransactionWithTimelockErr(sw, proposer, eta, Clock)
       IN IF e # "Ok"
          THEN Fail(Result("create_transaction_with_timelock", w, t, proposer, e, 0))
          ELSE /\ wallets' = [wallets EXCEPT ![w].num_transactions = @ + 1]
               /\ txs' = Append(txs,
                      [ smart_wallet |-> w,
                        index |-> sw.num_transactions,
                        bump |-> TxBump,
                        proposer |-> proposer,
                        instructions |-> instructions,
                        signers |-> NewSigners(sw, owner_index(sw, proposer)),
                        owner_set_seqno |-> sw.owner_set_seqno,
                        eta |-> eta,
                        executor |-> DefaultPubkey,
                        executed_at |-> NOT_EXECUTED ])
               /\ created' = Append(created, Clock)
               /\ last' = Result("create_transaction_with_timelock", w, t, proposer, "Ok", 0)
               /\ UNCHANGED now

\* Mutant: the signer's slot is looked up without failing for a key that is
\* not an owner.
ApproveErr_NoOwnerCheck(sw, tx, owner) ==
    IF ~(owner_index(sw, owner) < Len(tx.signers)) THEN "Panic"
    ELSE "Ok"

\* Mutant: approve and unapprove flip the signer's flag.
SetSigner_Toggle(w, t, owner, op, value) ==
    /\ w \in 1..Len(wallets)
    /\ t \in 1..Len(txs)
    /\ LET sw == wallets[w]
           i == owner_index(sw, owner) + 1
       IN IF i < 1 \/ i > Len(txs[t].signers)
          THEN Fail(Result(op, w, t, owner, "InvalidOwner", 0))
          ELSE /\ txs' = [txs EXCEPT ![t].signers[i] = ~@]
               /\ last' = Result(op, w, t, owner, "Ok", 0)
               /\ UNCHANGED <<wallets, created, now>>

(***************************************************************************)
(* approve and unapprove (lib.rs:415-450).  Their access control is        *)
(* Validate for Approve, which adds no check to the ones of the handlers.  *)
(***************************************************************************)
ApproveValidate(sw, tx, owner) == "Ok"

ApproveErr(sw, tx, owner) ==
    IF ApproveValidate(sw, tx, owner) # "Ok" THEN ApproveValidate(sw, tx, owner)
    ELSE IF owner_index(sw, owner) < 0 THEN "InvalidOwner"
    ELSE IF ~(owner_index(sw, owner) < Len(tx.signers)) THEN "Panic"
    ELSE "Ok"

\* Mutant: the flag of the first owner is written, whoever the caller is.
SetSigner_FirstSlot(w, t, owner, op, value) ==
    /\ w \in 1..Len(wallets)
    /\ t \in 1..Len(txs)
    /\ LET sw == wallets[w]
           e == ApproveErr(sw, txs[t], owner)
       IN IF e # "Ok"
          THEN Fail(Result(op, w, t, owner, e, 0))
          ELSE /\ txs' = [txs EXCEPT ![t].signers[1] = value]
               /\ last' = Result(op, w, t, owner, "Ok", 0)
               /\ UNCHANGED <<wallets, created, now>>

SetSigner(w, t, owner, op, value) ==
    /\ w \in 1..Len(wallets)
    /\ t \in 1..Len(txs)
    /\ LET sw == wallets[w]
           e == ApproveErr(sw, txs[t], owner)
       IN IF e # "Ok"
          THEN Fail(Result(op, w, t, owner, e, 0))
          ELSE /\ txs' = [txs EXCEPT ![t].signers[owner_index(sw, owner) + 1] = value]
               /\ last' = Result(op, w, t, owner, "Ok", 0)
               /\ UNCHANGED <<wallets, created, now>>

Approve(w, t, owner) == SetSigner(w, t, owner, "approve", TRUE)

Unapprove(w, t, owner) == SetSigner(w, t, owner, "unapprove", FALSE)

(***************************************************************************)
(* Transaction::num_signers / tally: the number of true signer flags.      *)
(***************************************************************************)
tally(tx) == Cardinality({i \in 1..Len(tx.signers) : tx.signers[i]})

(***************************************************************************)
(* The timelock policy: whether a Transaction may execute at `current_ts`. *)
(***************************************************************************)
is_executable(current_ts, tx, sw) ==
    IF tx.eta = NO_ETA THEN "Ready"
    ELSE IF current_ts < tx.eta THEN "NotYetDue"
    ELSE IF current_ts > tx.eta + sw.grace_period THEN "Stale"
    ELSE "Ready"

(***************************************************************************)
(* Validate for ExecuteTransaction, the access control of both execute     *)
(* entry points (lib.rs:453, lib.rs:467): the five preconditions, in       *)
(* order.                                                                  *)
(***************************************************************************)
ExecuteTransactionValidate(sw, tx, owner, current_ts) ==
    IF owner_index(sw, owner) < 0 THEN "InvalidOwner"
    ELSE IF tx.executed_at # NOT_EXECUTED THEN "AlreadyExecuted"
    ELSE IF tx.owner_set_seqno # sw.owner_set_seqno THEN "OwnerSetChanged"
    ELSE IF tally(tx) < sw.threshold THEN "NotEnoughSigners"
    ELSE IF is_executable(current_ts, tx, sw) = "NotYetDue" THEN "TransactionNotReady"
    ELSE IF is_executable(current_ts, tx, sw) = "Stale" THEN "TransactionIsStale"
    ELSE "Ok"

\* Mutant: the result of invoke_signed is dropped (no `?`), so a failing
\* instruction is not noticed and the Transaction is burnt all the same.
DoExecuteTransaction_IgnoreErr(op, w, t, owner, fail) ==
    /\ fail \in 0..Len(txs[t].instructions)
    /\ txs' = [txs EXCEPT ![t].executor = owner, ![t].executed_at = Clock]
    /\ last' = Result(op, w, t, owner, "Ok", Len(txs[t].instructions))
    /\ UNCHANGED <<wallets, created, now>>

\* Mutant: the Transaction is not burnt after its instructions ran.
DoExecuteTransaction_NoBurn(op, w, t, owner, fail) ==
    /\ fail \in 0..Len(txs[t].instructions)
    /\ IF fail # 0
       THEN Fail(Result(op, w, t, owner, "ExecutionFailure", fail))
       ELSE /\ last' = Result(op, w, t, owner, "Ok", Len(txs[t].instructions))
            /\ UNCHANGED <<wallets, txs, created, now>>

\* Mutant: executed_at is written but executor is not.
DoExecuteTransaction_NoExecutor(op, w, t, owner, fail) ==
    /\ fail \in 0..Len(txs[t].instructions)
    /\ IF fail # 0
       THEN Fail(Result(op, w, t, owner, "ExecutionFailure", fail))
       ELSE /\ txs' = [txs EXCEPT ![t].executed_at = Clock]
            /\ last' = Result(op, w, t, owner, "Ok", Len(txs[t].instructions))
            /\ UNCHANGED <<wallets, created, now>>

\* Mutant: the instructions are invoked from the last to the first.
Invoked_Reversed(instructions, fail) ==
    [i \in 1..Len(instructions) |-> instructions[Len(instructions) + 1 - i]]

(***************************************************************************)
(* The loop of do_execute_transaction (lib.rs:763-765): the instructions   *)
(* handed to invoke_signed, in the order of the calls, when the call at    *)
(* position `fail` (from 1; 0 for none) is the first to return an error.   *)
(***************************************************************************)
RECURSIVE InvokeLoop(_, _, _, _)
InvokeLoop(instructions, i, fail, invoked) ==
    IF i > Len(instructions) THEN invoked
    ELSE IF i = fail THEN Append(invoked, instructions[i])
    ELSE InvokeLoop(instructions, i + 1, fail, Append(invoked, instructions[i]))

Invoked(instructions, fail) == InvokeLoop(instructions, 1, fail, <<>>)

(***************************************************************************)
(* do_execute_transaction (lib.rs:762-779).  The instructions are invoked  *)
(* in order; `fail` is the position (from 1) of the first one whose        *)
(* invoke_signed returns an error, 0 when none does.  The `?` returns at   *)
(* the first error, before executor and executed_at are written.           *)
(***************************************************************************)
DoExecuteTransaction(op, w, t, owner, fail) ==
    /\ fail \in 0..Len(txs[t].instructions)
    /\ LET n == Len(Invoked(txs[t].instructions, fail))
       IN IF fail # 0
          THEN Fail(Result(op, w, t, owner, "ExecutionFailure", n))
          ELSE /\ txs' = [txs EXCEPT ![t].executor = owner, ![t].executed_at = Clock]
               /\ last' = Result(op, w, t, owner, "Ok", n)
               /\ UNCHANGED <<wallets, created, now>>

\* Mutant: execute_transaction without its #[access_control].
ExecuteTransaction_NoAccessControl(w, t, owner, fail) ==
    /\ w \in 1..Len(wallets)
    /\ t \in 1..Len(txs)
    /\ DoExecuteTransaction("execute_transaction", w, t, owner, fail)

\* Mutant: execute_transaction_derived without its #[access_control].
ExecuteTransactionDerived_NoAccessControl(w, t, owner, index, bump, fail) ==
    /\ w \in 1..Len(wallets)
    /\ t \in 1..Len(txs)
    /\ DoExecuteTransaction("execute_transaction_derived", w, t, owner, fail)

(***************************************************************************)
(* execute_transaction (lib.rs:452-462).                                   *)
(***************************************************************************)
ExecuteTransaction(w, t, owner, fail) ==
    /\ w \in 1..Len(wallets)
    /\ t \in 1..Len(txs)
    /\ LET e == ExecuteTransactionValidate(wallets[w], txs[t], owner, Clock)
       IN IF e # "Ok"
          THEN Fail(Result("execute_transaction", w, t, owner, e, 0))
          ELSE DoExecuteTransaction("execute_transaction", w, t, owner, fail)

(***************************************************************************)
(* execute_transaction_derived (lib.rs:464-482): the same, signing with    *)
(* the derived address of (index, bump), which only the invoked            *)
(* instructions see.                                                       *)
(***************************************************************************)
ExecuteTransactionDerived(w, t, owner, index, bump, fail) ==
    /\ w \in 1..Len(wallets)
    /\ t \in 1..Len(txs)
    /\ LET e == ExecuteTransactionValidate(wallets[w], txs[t], owner, Clock)
       IN IF e # "Ok"
          THEN Fail(Result("execute_transaction_derived", w, t, owner, e, 0))
          ELSE DoExecuteTransaction("execute_transaction_derived", w, t, owner, fail)

(***************************************************************************)
(* The configuration mutations (events.rs:58-74 declares their events):    *)
(* they replace the owners or the threshold and bump owner_set_seqno.      *)
(***************************************************************************)
SetOwners(w, owners) ==
    /\ w \in 1..Len(wallets)
    /\ wallets[w].owner_set_seqno < MaxSeqno
    /\ IF ~(Len(owners) <= wallets[w].max_owners)
       THEN Fail(Result("set_owners", w, 0, DefaultPubkey, "InvariantFailed", 0))
       ELSE IF ~(wallets[w].threshold <= Len(owners))
       THEN Fail(Result("set_owners", w, 0, DefaultPubkey, "InvalidThreshold", 0))
       ELSE /\ wallets' = [wallets EXCEPT ![w].owners = owners,
                                           ![w].owner_set_seqno = @ + 1]
            /\ last' = Result("set_owners", w, 0, DefaultPubkey, "Ok", 0)
            /\ UNCHANGED <<txs, created, now>>

ChangeThreshold(w, threshold) ==
    /\ w \in 1..Len(wallets)
    /\ wallets[w].owner_set_seqno < MaxSeqno
    /\ IF ~(threshold >= 1 /\ threshold <= Len(wallets[w].owners))
       THEN Fail(Result("change_threshold", w, 0, DefaultPubkey, "InvalidThreshold", 0))
       ELSE /\ wallets' = [wallets EXCEPT ![w].threshold = threshold,
                                           ![w].owner_set_seqno = @ + 1]
            /\ last' = Result("change_threshold", w, 0, DefaultPubkey, "Ok", 0)
            /\ UNCHANGED <<txs, created, now>>

(***************************************************************************)
(* The clock (Clock sysvar): it only moves forward.  `last` is cleared, so  *)
(* that a result is always one obtained at the current clock.              *)
(***************************************************************************)
Tick ==
    /\ now < Len(Times)
    /\ now' = now + 1
    /\ last' = NoResult
    /\ UNCHANGED <<wallets, txs, created>>

\* One instruction of the program, on a wallet created with arguments of `wargs`
\* and Transactions created with buffer sizes of `sizes` and lists of `lists`.
Program(wargs, sizes, lists) ==
    \/ \E a \in wargs : Len(wallets) < Cardinality(WalletIds) /\ CreateSmartWallet(a)
    \/ \E w \in WalletIds, p \in Signers, n \in sizes, b \in BlankArgs :
          Len(txs) < Cardinality(TxIds) /\ CreateTransaction(w, p, n, b)
    \/ \E w \in WalletIds, t \in TxIds, p \in Signers, b \in {TxBump, WrongBump},
          ix \in AppendArgs, i \in AppendIndexArgs :
          AppendTransaction(w, t, p, b, ix, i)
    \/ \E w \in WalletIds, p \in Signers, ixs \in lists, eta \in EtaArgs :
          Len(txs) < Cardinality(TxIds) /\ CreateTransactionWithTimelock(w, p, ixs, eta)
    \/ \E w \in WalletIds, t \in TxIds, p \in Signers : Approve(w, t, p)
    \/ \E w \in WalletIds, t \in TxIds, p \in Signers : Unapprove(w, t, p)
    \/ \E w \in WalletIds, t \in TxIds, p \in Signers, f \in 0..MaxIx :
          ExecuteTransaction(w, t, p, f)
    \/ \E w \in WalletIds, t \in TxIds, p \in Signers, f \in 0..MaxIx :
          ExecuteTransactionDerived(w, t, p, 0, TxBump, f)
    \/ Tick

Next == Program(CreateSmartWalletArgs, BufferSizeArgs, InstructionArgs)

Spec == Init /\ [][Next]_vars

\* The program together with the configuration mutations, on Transactions
\* that hold no instruction.
NextCfg ==
    \/ Program(CfgWalletArgs, {0}, {<<>>})
    \/ \E w \in WalletIds, o \in SetOwnersArgs : SetOwners(w, o)
    \/ \E w \in WalletIds, th \in ThresholdArgs : ChangeThreshold(w, th)

SpecCfg == Init /\ [][NextCfg]_vars

\* The program on a wallet that holds two Transactions, created through either
\* entry point, each with a buffer of at most one instruction.
MultiTxIds == {1, 2}

MultiSigners == {"A", "C"}

MultiWalletArgs ==
    { [max_owners |-> 2, owners |-> <<"A", "B">>, threshold |-> 1, minimum_delay |-> 0] }

MultiSizeArgs == {1}

MultiEtaArgs == {NO_ETA}

NextMulti ==
    \/ \E a \in MultiWalletArgs :
          Len(wallets) < Cardinality(WalletIds) /\ CreateSmartWallet(a)
    \/ \E w \in WalletIds, p \in MultiSigners, n \in MultiSizeArgs :
          Len(txs) < Cardinality(MultiTxIds) /\ CreateTransaction(w, p, n, <<"blank">>)
    \/ \E w \in WalletIds, t \in MultiTxIds, p \in MultiSigners, i \in AppendIndexArgs :
          AppendTransaction(w, t, p, TxBump, "ix", i)
    \/ \E w \in WalletIds, p \in MultiSigners, eta \in MultiEtaArgs :
          Len(txs) < Cardinality(MultiTxIds)
             /\ CreateTransactionWithTimelock(w, p, <<>>, eta)
    \/ \E w \in WalletIds, t \in MultiTxIds, p \in MultiSigners : Approve(w, t, p)
    \/ \E w \in WalletIds, t \in MultiTxIds, p \in MultiSigners : Unapprove(w, t, p)
    \/ \E w \in WalletIds, t \in MultiTxIds, p \in MultiSigners, f \in 0..1 :
          ExecuteTransaction(w, t, p, f)
    \/ \E w \in WalletIds, t \in MultiTxIds, p \in MultiSigners, f \in 0..1 :
          ExecuteTransactionDerived(w, t, p, 0, TxBump, f)
    \/ Tick

SpecMulti == Init /\ [][NextMulti]_vars

\* The program with two wallets of disjoint owners and one Transaction, so a
\* call can name a wallet other than the one the Transaction was created in.
PairWalletIds == {1, 2}

PairSigners == {"A", "C"}

PairWalletArgs ==
    { [max_owners |-> 2, owners |-> <<"A", "B">>, threshold |-> 1, minimum_delay |-> 0],
      [max_owners |-> 1, owners |-> <<"C">>, threshold |-> 1, minimum_delay |-> 0] }

NextPair ==
    \/ \E a \in PairWalletArgs :
          Len(wallets) < Cardinality(PairWalletIds) /\ CreateSmartWallet(a)
    \/ \E w \in PairWalletIds, p \in PairSigners, n \in MultiSizeArgs :
          Len(txs) < Cardinality(TxIds) /\ CreateTransaction(w, p, n, <<"blank">>)
    \/ \E w \in PairWalletIds, t \in TxIds, p \in PairSigners, i \in AppendIndexArgs :
          AppendTransaction(w, t, p, TxBump, "ix", i)
    \/ \E w \in PairWalletIds, p \in PairSigners, eta \in MultiEtaArgs :
          Len(txs) < Cardinality(TxIds)
             /\ CreateTransactionWithTimelock(w, p, <<"ix">>, eta)
    \/ \E w \in PairWalletIds, t \in TxIds, p \in PairSigners : Approve(w, t, p)
    \/ \E w \in PairWalletIds, t \in TxIds, p \in PairSigners : Unapprove(w, t, p)
    \/ \E w \in PairWalletIds, t \in TxIds, p \in PairSigners, f \in 0..1 :
          ExecuteTransaction(w, t, p, f)
    \/ \E w \in PairWalletIds, t \in TxIds, p \in PairSigners, f \in 0..1 :
          ExecuteTransactionDerived(w, t, p, 0, TxBump, f)
    \/ Tick

SpecPair == Init /\ [][NextPair]_vars

(***************************************************************************)
(* Vocabulary of the properties.  `last` is the result of the instruction  *)
(* processed last at the current clock, so in a state whose `last` is a    *)
(* failed attempt the accounts and the clock are the ones the attempt saw. *)
(* In a step, last' tells which instruction the step processed.            *)
(***************************************************************************)
IsExecute(op) == op \in {"execute_transaction", "execute_transaction_derived"}

IsOwner(sw, p) == \E i \in 1..Len(sw.owners) : sw.owners[i] = p

Executed(tx) == tx.executed_at # NOT_EXECUTED

\* The execute attempt invoked nothing and left the Transaction as it was.
Rejected(r) == r.err \notin {"Ok", "ExecutionFailure"} /\ r.dispatched = 0

LastTx == txs[last.t]

LastWallet == wallets[last.w]

\* The checks that precede the signer threshold pass.
FreshForOwner(sw, tx, p) ==
    /\ IsOwner(sw, p)
    /\ ~Executed(tx)
    /\ tx.owner_set_seqno = sw.owner_set_seqno

\* C1 (as amended): an execute attempt on a Transaction with fewer true signers
\* than the wallet's threshold at that instant never succeeds and invokes
\* nothing; it returns NotEnoughSigners when the caller is a current owner, the
\* Transaction is not executed and its owner_set_seqno is the wallet's.
C1_ThresholdEnforced ==
    (IsExecute(last.op) /\ tally(LastTx) < LastWallet.threshold)
    => /\ Rejected(last)
       /\ FreshForOwner(LastWallet, LastTx, last.who) => last.err = "NotEnoughSigners"

\* C1 as stated: every execute attempt below the threshold returns
\* NotEnoughSigners.
C1_AlwaysNotEnoughSigners ==
    (IsExecute(last.op) /\ tally(LastTx) < LastWallet.threshold)
    => last.err = "NotEnoughSigners"

C1_Witness ==
    /\ IsExecute(last.op)
    /\ last.err = "NotEnoughSigners"
    /\ tally(LastTx) > 0
    /\ tally(LastTx) < LastWallet.threshold

\* C2 (as amended): once executed_at is set it never changes again (nor does
\* executor), and every execute attempt on such a Transaction invokes nothing
\* and fails: with AlreadyExecuted when the caller is a current owner, with
\* InvalidOwner otherwise.
C2_ExecutedOnce ==
    [][\A t \in 1..Len(txs) :
          Executed(txs[t])
          => /\ txs'[t].executed_at = txs[t].executed_at
             /\ txs'[t].executor = txs[t].executor
             /\ (IsExecute(last'.op) /\ last'.t = t)
                => /\ Rejected(last')
                   /\ last'.err = IF IsOwner(wallets[last'.w], last'.who)
                                  THEN "AlreadyExecuted" ELSE "InvalidOwner"]_vars

\* C2 as stated: every execute attempt on an executed Transaction returns
\* AlreadyExecuted.
C2_AlwaysAlreadyExecuted ==
    [][\A t \in 1..Len(txs) :
          Executed(txs[t])
          => /\ txs'[t].executed_at = txs[t].executed_at
             /\ (IsExecute(last'.op) /\ last'.t = t)
                => (Rejected(last') /\ last'.err = "AlreadyExecuted")]_vars

C2_Witness ==
    /\ IsExecute(last.op)
    /\ last.err = "AlreadyExecuted"
    /\ last.dispatched = 0
    /\ Executed(LastTx)
    /\ LastTx.executor # last.who

\* C3 (as amended): an execute attempt on a Transaction whose owner_set_seqno
\* differs from the wallet's never succeeds and invokes nothing, whatever the
\* tally, the threshold and the time; it returns OwnerSetChanged when the caller
\* is a current owner and the Transaction is not executed.
C3_OwnerSetChanged ==
    (IsExecute(last.op) /\ LastTx.owner_set_seqno # LastWallet.owner_set_seqno)
    => /\ Rejected(last)
       /\ (IsOwner(LastWallet, last.who) /\ ~Executed(LastTx))
          => last.err = "OwnerSetChanged"

\* C3 as stated: every such attempt returns OwnerSetChanged.
C3_AlwaysOwnerSetChanged ==
    (IsExecute(last.op) /\ LastTx.owner_set_seqno # LastWallet.owner_set_seqno)
    => last.err = "OwnerSetChanged"

\* The scenario of the specification: the threshold was lowered to the tally.
C3_Witness ==
    /\ IsExecute(last.op)
    /\ last.err = "OwnerSetChanged"
    /\ tally(LastTx) >= LastWallet.threshold
    /\ is_executable(Clock, LastTx, LastWallet) = "Ready"

\* C4 (as amended): an execute attempt on a Transaction with an ETA succeeds
\* only at a time within [eta, eta + grace_period]; outside that window it
\* fails and invokes nothing, with TransactionNotReady before eta and
\* TransactionIsStale after eta + grace_period when the caller is a current
\* owner, the Transaction is not executed, its owner_set_seqno is the wallet's
\* and its tally reaches the threshold.
C4_EtaWindow ==
    (IsExecute(last.op) /\ LastTx.eta # NO_ETA)
    => LET early == Clock < LastTx.eta
           stale == Clock > LastTx.eta + LastWallet.grace_period
           reached == /\ FreshForOwner(LastWallet, LastTx, last.who)
                      /\ tally(LastTx) >= LastWallet.threshold
       IN  /\ (early \/ stale) => Rejected(last)
           /\ (reached /\ early) => last.err = "TransactionNotReady"
           /\ (reached /\ stale) => last.err = "TransactionIsStale"

\* C4 as stated: every attempt before eta returns TransactionNotReady and every
\* attempt after eta + grace_period returns TransactionIsStale.
C4_AlwaysTimelockError ==
    (IsExecute(last.op) /\ LastTx.eta # NO_ETA)
    => /\ Clock < LastTx.eta => last.err = "TransactionNotReady"
       /\ Clock > LastTx.eta + LastWallet.grace_period
          => last.err = "TransactionIsStale"

C4_Witness ==
    /\ IsExecute(last.op)
    /\ last.err = "TransactionIsStale"
    /\ Clock = LastTx.eta + LastWallet.grace_period + 1

\* C5: in a wallet with a nonzero minimum_delay no Transaction is executed
\* less than minimum_delay seconds after it was created, whichever entry point
\* created it.
C5_MinimumDelayRespected ==
    \A t \in 1..Len(txs) :
        (Executed(txs[t]) /\ wallets[txs[t].smart_wallet].minimum_delay # 0)
        => txs[t].executed_at - created[t]
              >= wallets[txs[t].smart_wallet].minimum_delay

\* C6: an execute attempt by a caller who is not in the wallet's current owners
\* list fails with InvalidOwner, invokes nothing and changes no account, even
\* when the threshold is met and the timelock is satisfied.
C6_NonOwnerRejected ==
    [][(IsExecute(last'.op) /\ ~IsOwner(wallets[last'.w], last'.who))
       => /\ last'.err = "InvalidOwner"
          /\ last'.dispatched = 0
          /\ UNCHANGED <<wallets, txs>>]_vars

C6_Witness ==
    /\ IsExecute(last.op)
    /\ last.err = "InvalidOwner"
    /\ ~IsOwner(LastWallet, last.who)
    /\ ~Executed(LastTx)
    /\ tally(LastTx) >= LastWallet.threshold
    /\ is_executable(Clock, LastTx, LastWallet) = "Ready"

\* C7: when instruction number f of an admitted execute attempt fails (the
\* step is do_execute_transaction with that failure), the instructions after
\* it are not invoked, the attempt fails, executed_at and executor stay unset,
\* and the Transaction is still admitted for execution.
C7_FailureLeavesPending ==
    [][(/\ IsExecute(last'.op)
        /\ ExecuteTransactionValidate(wallets[last'.w], txs[last'.t],
                                      last'.who, Clock) = "Ok")
       => \A f \in 1..Len(txs[last'.t].instructions) :
             DoExecuteTransaction(last'.op, last'.w, last'.t, last'.who, f)
             => /\ last'.err = "ExecutionFailure"
                /\ last'.dispatched = f
                /\ txs' = txs
                /\ txs'[last'.t].executed_at = NOT_EXECUTED
                /\ txs'[last'.t].executor = DefaultPubkey
                /\ ExecuteTransactionValidate(wallets'[last'.w], txs'[last'.t],
                                              last'.who, Clock') = "Ok"]_vars

C7_Witness ==
    /\ IsExecute(last.op)
    /\ last.err = "ExecutionFailure"
    /\ last.dispatched = 1
    /\ Len(LastTx.instructions) = 2
    /\ ~Executed(LastTx)
    /\ ExecuteTransactionValidate(LastWallet, LastTx, last.who, Clock) = "Ok"

\* C8: a failed execute attempt reports the first violated check in the order
\* InvalidOwner, AlreadyExecuted, OwnerSetChanged, NotEnoughSigners, then
\* TransactionNotReady or TransactionIsStale; an attempt that passed them
\* violated none.
C8_CheckOrder ==
    IsExecute(last.op)
    => LET notOwner == ~IsOwner(LastWallet, last.who)
           changed  == LastTx.owner_set_seqno # LastWallet.owner_set_seqno
           few      == tally(LastTx) < LastWallet.threshold
           early    == LastTx.eta # NO_ETA /\ Clock < LastTx.eta
           stale    == /\ LastTx.eta # NO_ETA
                       /\ Clock > LastTx.eta + LastWallet.grace_period
       IN  IF last.err \in {"Ok", "ExecutionFailure"}
           THEN ~(notOwner \/ changed \/ few \/ early \/ stale)
           ELSE last.err =
                  IF notOwner THEN "InvalidOwner"
                  ELSE IF Executed(LastTx) THEN "AlreadyExecuted"
                  ELSE IF changed THEN "OwnerSetChanged"
                  ELSE IF few THEN "NotEnoughSigners"
                  ELSE IF early THEN "TransactionNotReady"
                  ELSE IF stale THEN "TransactionIsStale"
                  ELSE "none"

\* Three later checks are violated at once and the earliest one is reported.
C8_Witness ==
    /\ IsExecute(last.op)
    /\ last.err = "OwnerSetChanged"
    /\ tally(LastTx) < LastWallet.threshold
    /\ LastTx.eta # NO_ETA
    /\ Clock < LastTx.eta

C10_ExecutorAndExecutedAt ==
    [][/\ (IsExecute(last'.op) /\ last'.err = "Ok")
          => /\ txs'[last'.t].executed_at = Clock'
             /\ txs'[last'.t].executor = last'.who
       /\ \A t \in 1..Len(txs') :
             (txs'[t].executor = DefaultPubkey)
                <=> (txs'[t].executed_at = NOT_EXECUTED)
       /\ \A t \in 1..Len(txs) :
             (\/ txs'[t].executor # txs[t].executor
              \/ txs'[t].executed_at # txs[t].executed_at)
             => (IsExecute(last'.op) /\ last'.err = "Ok" /\ last'.t = t)]_vars

C10_Witness ==
    /\ IsExecute(last.op)
    /\ last.err = "Ok"
    /\ LastTx.executed_at = Clock
    /\ LastTx.executor = last.who
    /\ LastTx.executor # LastTx.proposer
    /\ Len(LastTx.instructions) = MaxIx

\* C11: in every reachable state each wallet has 1 <= threshold <= number of
\* owners (create_smart_wallet with another threshold creates no wallet).
C11_ThresholdValid ==
    \A w \in 1..Len(wallets) :
        /\ 1 <= wallets[w].threshold
        /\ wallets[w].threshold <= Len(wallets[w].owners)

IsCreate(op) == op \in {"create_transaction", "create_transaction_with_timelock"}

\* C12 (as amended): a Transaction creation whose proposer is not in the
\* wallet's current owners list fails, creates no Transaction and leaves
\* num_transactions unchanged; the error is InvalidOwner, except that
\* create_transaction called with an empty blank_xacts panics before it looks
\* the proposer up.
C12_CreateByNonOwner ==
    [][(IsCreate(last'.op) /\ ~IsOwner(wallets[last'.w], last'.who))
       => /\ UNCHANGED <<wallets, txs, created>>
          /\ last'.err \in {"InvalidOwner", "Panic"}
          /\ last'.op = "create_transaction_with_timelock"
             => last'.err = "InvalidOwner"
          /\ \A n \in BufferSizeArgs \cup {0}, b \in BlankArgs :
                CreateTransaction(last'.w, last'.who, n, b)
                => (last'.err = "Panic" <=> b = <<>>)]_vars

\* C12 as stated: every creation by a non-owner fails with InvalidOwner.
C12_AlwaysInvalidOwner ==
    [][(IsCreate(last'.op) /\ ~IsOwner(wallets[last'.w], last'.who))
       => /\ UNCHANGED <<wallets, txs, created>>
          /\ last'.err = "InvalidOwner"]_vars

\* The proposer was an owner until set_owners removed it.
C12_Witness ==
    /\ IsCreate(last.op)
    /\ last.err = "InvalidOwner"
    /\ LastWallet.owners = <<"A", "C">>
    /\ last.who = "B"
    /\ LastWallet.num_transactions = 0
    /\ Len(txs) = 0

\* C13 (as amended): create_transaction_with_timelock by an owner with an ETA
\* set is accepted exactly when now + minimum_delay <= eta <= now + 365 days.
\* Otherwise it fails: with InvalidETA when minimum_delay is nonzero and
\* eta < now + minimum_delay, with an invariant failure when minimum_delay is
\* zero and eta < now, and with DelayTooHigh when eta > now + 365 days.  Without
\* ETA it is accepted when minimum_delay is zero and fails with InvalidETA
\* otherwise.
C13_EtaAccepted ==
    [][(last'.op = "create_transaction_with_timelock"
          /\ IsOwner(wallets[last'.w], last'.who))
       => \A eta \in EtaArgs, ixs \in InstructionArgs :
             CreateTransactionWithTimelock(last'.w, last'.who, ixs, eta)
             => LET sw == wallets[last'.w]
                    lo == Clock + sw.minimum_delay
                    hi == Clock + MAX_DELAY_SECONDS
                IN  IF eta = NO_ETA
                    THEN last'.err = IF sw.minimum_delay = 0
                                     THEN "Ok" ELSE "InvalidETA"
                    ELSE /\ last'.err = "Ok" <=> (lo <= eta /\ eta <= hi)
                         /\ last'.err = "Ok" => txs'[last'.t].eta = eta
                         /\ last'.err =
                              IF sw.minimum_delay # 0 /\ eta < lo THEN "InvalidETA"
                              ELSE IF eta < Clock THEN "InvariantFailed"
                              ELSE IF eta > hi THEN "DelayTooHigh"
                              ELSE "Ok"]_vars

\* C13 as stated: with an ETA set, the creation is accepted inside the window
\* and fails with InvalidETA outside it.
C13_AlwaysInvalidEta ==
    [][(last'.op = "create_transaction_with_timelock"
          /\ IsOwner(wallets[last'.w], last'.who))
       => \A eta \in EtaArgs \ {NO_ETA}, ixs \in InstructionArgs :
             CreateTransactionWithTimelock(last'.w, last'.who, ixs, eta)
             => last'.err =
                  IF /\ Clock + wallets[last'.w].minimum_delay <= eta
                     /\ eta <= Clock + MAX_DELAY_SECONDS
                  THEN "Ok" ELSE "InvalidETA"]_vars

\* An ETA at the lower boundary now + minimum_delay was accepted.
C13_Witness ==
    /\ last.op = "create_transaction_with_timelock"
    /\ last.err = "Ok"
    /\ LastWallet.minimum_delay # 0
    /\ LastTx.eta = Clock + LastWallet.minimum_delay

\* C14: no two Transactions of the same wallet have the same index, whatever
\* mix of create_transaction, append_transaction and
\* create_transaction_with_timelock created them.
C14_IndexUnique ==
    \A t1, t2 \in 1..Len(txs) :
        (t1 # t2 /\ txs[t1].smart_wallet = txs[t2].smart_wallet)
        => txs[t1].index # txs[t2].index

\* C15: a wallet's num_transactions equals the number of Transactions created
\* on that wallet.
C15_CountsTransactions ==
    \A w \in 1..Len(wallets) :
        wallets[w].num_transactions
           = Cardinality({t \in 1..Len(txs) : txs[t].smart_wallet = w})

IsBallot(op) == op \in {"approve", "unapprove"}

\* C16: approve and unapprove called by a key that is not in the wallet's
\* current owners list fail with InvalidOwner and leave every signer flag (and
\* every account) unchanged.
C16_BallotByNonOwner ==
    [][(IsBallot(last'.op) /\ ~IsOwner(wallets[last'.w], last'.who))
       => /\ last'.err = "InvalidOwner"
          /\ UNCHANGED <<wallets, txs>>]_vars

\* A key that approved as an owner and was removed by set_owners is rejected.
C16_Witness ==
    /\ IsBallot(last.op)
    /\ last.err = "InvalidOwner"
    /\ last.who = "B"
    /\ LastWallet.owners = <<"A", "C">>
    /\ LastTx.signers[2]

\* C17: one approve changes the tally by 0 or +1 and one unapprove by 0 or -1;
\* a successful call writes the caller's flag (true for approve, false for
\* unapprove) and no other, so a call that finds its flag already written,
\* as a repeated call does, changes nothing.
C17_TallySteps ==
    [][IsBallot(last'.op)
       => LET t == last'.t
              i == owner_index(wallets[last'.w], last'.who) + 1
              value == (last'.op = "approve")
              d == tally(txs'[t]) - tally(txs[t])
          IN  /\ d \in (IF value THEN {0, 1} ELSE {0, -1})
              /\ \A u \in 1..Len(txs) : u # t => txs'[u] = txs[u]
              /\ IF last'.err = "Ok"
                 THEN /\ txs'[t] = [txs[t] EXCEPT !.signers[i] = value]
                      /\ txs'[t].signers[i] = value
                      /\ txs[t].signers[i] = value => txs' = txs
                 ELSE txs' = txs]_vars

\* All three owners approved, one after the other.
C17_Witness ==
    /\ last.op = "approve"
    /\ last.err = "Ok"
    /\ Len(LastTx.signers) = 3
    /\ tally(LastTx) = 3
    /\ last.who # LastTx.proposer

\* C18: once a Transaction is executed, no later instruction changes its
\* signers, instructions, eta, executor or executed_at.
C18_ExecutedTerminal ==
    [][\A t \in 1..Len(txs) :
          Executed(txs[t])
          => /\ txs'[t].signers = txs[t].signers
             /\ txs'[t].instructions = txs[t].instructions
             /\ txs'[t].eta = txs[t].eta
             /\ txs'[t].executor = txs[t].executor
             /\ txs'[t].executed_at = txs[t].executed_at]_vars

\* C19: append_transaction succeeds only when its owner signer is one of the
\* wallet's current owners.
C19_AppendByOwnerOnly ==
    (last.op = "append_transaction" /\ last.err = "Ok")
    => IsOwner(LastWallet, last.who)

\* C20 (as amended): create_smart_wallet with minimum_delay < 0 fails with an
\* invariant failure and with minimum_delay >= 365 days (31536000 seconds)
\* fails with DelayTooHigh, creating no wallet; a created wallet has the
\* minimum_delay it was given, grace_period 14 days, owner_set_seqno 0 and
\* num_transactions 0, and every wallet has 0 <= minimum_delay < 365 days and
\* grace_period 14 days.
C20_CreatedWallet ==
    [][/\ MAX_DELAY_SECONDS = 31536000
       /\ \A w \in 1..Len(wallets') :
             /\ 0 <= wallets'[w].minimum_delay
             /\ wallets'[w].minimum_delay < MAX_DELAY_SECONDS
             /\ wallets'[w].grace_period = 14 * 86400
       /\ last'.op = "create_smart_wallet"
          => \A a \in CreateSmartWalletArgs :
                CreateSmartWallet(a)
                => /\ a.minimum_delay < 0
                      => (last'.err = "InvariantFailed" /\ wallets' = wallets)
                   /\ a.minimum_delay >= MAX_DELAY_SECONDS
                      => (last'.err = "DelayTooHigh" /\ wallets' = wallets)
                   /\ last'.err = "Ok"
                      => /\ Len(wallets') = Len(wallets) + 1
                         /\ wallets'[last'.w].minimum_delay = a.minimum_delay
                         /\ wallets'[last'.w].owner_set_seqno = 0
                         /\ wallets'[last'.w].num_transactions = 0
                   /\ last'.err # "Ok" => wallets' = wallets]_vars

\* C20 as stated: a minimum_delay outside [0, 365 days) fails with
\* InvalidDelay.
C20_AlwaysInvalidDelay ==
    [][last'.op = "create_smart_wallet"
       => \A a \in CreateSmartWalletArgs :
             (/\ CreateSmartWallet(a)
              /\ (a.minimum_delay < 0 \/ a.minimum_delay >= MAX_DELAY_SECONDS))
             => (last'.err = "InvalidDelay" /\ wallets' = wallets)]_vars

\* A minimum_delay of exactly 365 days was refused.
C20_Witness ==
    /\ last.op = "create_smart_wallet"
    /\ last.err = "DelayTooHigh"
    /\ Len(wallets) = 0

\* C21 (as amended): create_smart_wallet with more owners than max_owners
\* creates no wallet: it fails with an invariant failure (with DelayTooHigh
\* when the minimum_delay is 365 days or more); in every state a wallet has at
\* most max_owners owners.
C21_Capacity ==
    [][/\ \A w \in 1..Len(wallets') :
             Len(wallets'[w].owners) <= wallets'[w].max_owners
       /\ last'.op = "create_smart_wallet"
          => \A a \in CreateSmartWalletArgs \cup CfgWalletArgs :
                (CreateSmartWallet(a) /\ Len(a.owners) > a.max_owners)
                => /\ wallets' = wallets
                   /\ last'.err = IF /\ a.minimum_delay >= 0
                                     /\ a.minimum_delay >= MAX_DELAY_SECONDS
                                  THEN "DelayTooHigh" ELSE "InvariantFailed"]_vars

\* C21 as stated: more owners than max_owners fails with CapacityExceeded.
C21_AlwaysCapacityExceeded ==
    [][last'.op = "create_smart_wallet"
       => \A a \in CreateSmartWalletArgs \cup CfgWalletArgs :
             (CreateSmartWallet(a) /\ Len(a.owners) > a.max_owners)
             => (wallets' = wallets /\ last'.err = "CapacityExceeded")]_vars

\* Two owners were refused for a wallet declared with max_owners 1.
C21_Witness ==
    /\ last.op = "create_smart_wallet"
    /\ last.err = "InvariantFailed"
    /\ Len(wallets) = 0

\* The Transaction can no longer pass the execute checks against its wallet:
\* the wallet's owner set changed after it was created, or its grace period
\* is over.
Abandoned(t) ==
    LET sw == wallets[txs[t].smart_wallet] IN
    \/ txs[t].owner_set_seqno # sw.owner_set_seqno
    \/ is_executable(Clock, txs[t], sw) = "Stale"

C23_ProposerSigns ==
    (IsCreate(last.op) /\ last.err = "Ok")
    => /\ tally(LastTx) = 1
       /\ \E i \in 1..Len(LastWallet.owners) :
             /\ LastWallet.owners[i] = last.who
             /\ LastTx.proposer = last.who
             /\ i \in DOMAIN LastTx.signers
             /\ \A j \in DOMAIN LastTx.signers : LastTx.signers[j] <=> (j = i)

\* The second of three owners proposed with a timelock.
C23_Witness ==
    /\ last.op = "create_transaction_with_timelock"
    /\ last.err = "Ok"
    /\ last.who = "B"
    /\ LastTx.signers = <<FALSE, TRUE, FALSE>>

\* The owner at position i of the wallet of Transaction tx.
OwnerAt(tx, i) == wallets[tx.smart_wallet].owners[i]

C26_IdentityFixed ==
    [][/\ \A t \in 1..Len(txs) :
             /\ t \in 1..Len(txs')
             /\ txs'[t].smart_wallet = txs[t].smart_wallet
             /\ txs'[t].index = txs[t].index
             /\ txs'[t].proposer = txs[t].proposer
             /\ txs'[t].owner_set_seqno = txs[t].owner_set_seqno
             /\ txs'[t].eta = txs[t].eta
       /\ (IsCreate(last'.op) /\ last'.err = "Ok")
          => /\ Len(txs') = Len(txs) + 1
             /\ last'.t = Len(txs')
             /\ txs'[last'.t].owner_set_seqno = wallets[last'.w].owner_set_seqno
             /\ txs'[last'.t].smart_wallet = last'.w
             /\ txs'[last'.t].proposer = last'.who]_vars

\* A Transaction was created after the wallet's owner set had changed.
C26_Witness ==
    /\ last.op = "create_transaction"
    /\ last.err = "Ok"
    /\ LastTx.owner_set_seqno > 0
    /\ LastTx.owner_set_seqno = LastWallet.owner_set_seqno

\* C27: a successful execute hands every instruction of the Transaction to
\* invoke_signed exactly once, in list order, and then sets executed_at; when
\* the instruction at position f fails, exactly the instructions up to f were
\* invoked, in list order, and executed_at is not set.
C27_DispatchInOrder ==
    [][IsExecute(last'.op)
       => LET t == last'.t
              ixs == txs[t].instructions
          IN  /\ last'.err = "Ok"
                 => /\ Invoked(ixs, 0) = ixs
                    /\ last'.dispatched = Len(ixs)
                    /\ ~Executed(txs[t])
                    /\ txs'[t].executed_at = Clock
                    /\ txs'[t].instructions = ixs
              /\ last'.err = "ExecutionFailure"
                 => /\ last'.dispatched \in 1..Len(ixs)
                    /\ Invoked(ixs, last'.dispatched) = SubSeq(ixs, 1, last'.dispatched)
                    /\ txs' = txs
              /\ (Executed(txs'[t]) /\ ~Executed(txs[t]))
                 => (last'.err = "Ok" /\ last'.dispatched = Len(ixs))]_vars

\* A Transaction of two different instructions was executed.
C27_Witness ==
    /\ IsExecute(last.op)
    /\ last.err = "Ok"
    /\ LastTx.instructions = <<"ix", "blank">>
    /\ last.dispatched = 2
    /\ Executed(LastTx)

C30_ApprovedInstructionsFrozen ==
    [][\A t \in 1..Len(txs) :
          (\E i \in DOMAIN txs[t].signers :
              txs[t].signers[i] /\ OwnerAt(txs[t], i) # txs[t].proposer)
          => txs'[t].instructions = txs[t].instructions]_vars

\* C29: approve, unapprove, append_transaction and execute change the
\* signers, instructions, executor or executed_at of a Transaction only when
\* the wallet supplied with the call is the one in the Transaction's
\* smart_wallet field.
C29_OwnWalletOnly ==
    [][\A t \in 1..Len(txs) :
          (\/ txs'[t].signers # txs[t].signers
           \/ txs'[t].instructions # txs[t].instructions
           \/ txs'[t].executor # txs[t].executor
           \/ txs'[t].executed_at # txs[t].executed_at)
          => last'.w = txs[t].smart_wallet]_vars

====
